---- MODULE Spec2Model ----
(***************************************************************************)
(* Ally speech service (speech-service/speech_service.py): the synthesis   *)
(* queue of SpeechService, its driver coroutine _process_tts_queue, the    *)
(* single-shot and streaming handlers and the stop_tts command; the        *)
(* sentence splitter; the capture and recognition threads; the connection  *)
(* registry, the other commands and the broadcast of recognized speech.    *)
(*                                                                         *)
(* All coroutines run on one asyncio event-loop thread.  A step of the     *)
(* model is what one coroutine executes between two suspension points      *)
(* (await websocket.send, await run_in_executor, await asyncio.sleep, the  *)
(* first scheduling of a task made by asyncio.create_task, the read of the *)
(* next message of a connection).  tts_lock is a threading.Lock: acquiring *)
(* it while a suspended coroutine of the same loop holds it blocks the     *)
(* loop thread for good (loop_blocked).                                    *)
(***************************************************************************)
EXTENDS Integers, Sequences, FiniteSets, TLC

\* ---------------------------------------------------------------- bounds
NumConns == 2
MaxReq == 2
NumTexts == 3
MaxReqFull == 12
MaxBuffered == 12
MaxBufferedLong == 101
MaxSilence == 3
MaxTextLen == 4
MaxReqBusy == 1
NumIds == 1

\* ------------------------------------------------------ program constants
TtsQueueMaxsize == 10
MaxSentenceLength == 50
SilenceThreshold == 2
MaxSpeechChunks == 100
MinSpeechChunks == 10
AudioQueueMaxsize == 5
AudioQueueGate == 3
BroadcastQueueMaxsize == 20

None == 0
Conns == 1..NumConns
MessageIds == 0..NumIds
Outcomes == {"ok", "none", "raise"}

\* ------------------------------------------------- _split_into_sentences
\* A text is a sequence of characters.  The texts of the model have no
\* markdown characters (* ` #) and no thinking section, so the re.sub calls
\* of lines 536-543 leave them as they are.
Whitespace == {" ", "\n", "\t"}
SentenceEnd == {".", "!", "?"}

RECURSIVE lstrip(_)
lstrip(s) ==
    IF s # <<>> /\ Head(s) \in Whitespace THEN lstrip(Tail(s)) ELSE s

RECURSIVE rstrip(_)
rstrip(s) ==
    IF s # <<>> /\ s[Len(s)] \in Whitespace
    THEN rstrip(SubSeq(s, 1, Len(s) - 1))
    ELSE s

\* str.strip()
strip(s) == rstrip(lstrip(s))

\* re.split(r'(?<=[x])\s+', s) for the characters x of `after`, from index i
\* with the piece `cur` begun: the pieces between the whitespace runs that
\* directly follow a character of `after`.
RECURSIVE re_split(_, _, _, _)
re_split(s, i, cur, after) ==
    IF i > Len(s) THEN <<cur>>
    ELSE IF s[i] \in Whitespace /\ i > 1 /\ s[i - 1] \in after
    THEN <<cur>> \o re_split(lstrip(SubSeq(s, i, Len(s))), 1, <<>>, after)
    ELSE re_split(s, i + 1, Append(cur, s[i]), after)

\* [s.strip() for s in sentences if s.strip() and len(s.strip()) > 3]
RECURSIVE long_enough(_)
long_enough(sentences) ==
    IF sentences = <<>> THEN <<>>
    ELSE LET s == strip(Head(sentences))
         IN  (IF Len(s) > 3 THEN <<s>> ELSE <<>>)
             \o long_enough(Tail(sentences))

\* The `while i < len(sentences)` loop: a sentence shorter than 20 characters
\* is merged with the next one; a result longer than max_sentence_length is
\* split after its commas.
RECURSIVE merge_sentences(_, _)
merge_sentences(sentences, i) ==
    IF i > Len(sentences) THEN <<>>
    ELSE LET merges == Len(sentences[i]) < 20 /\ i + 1 <= Len(sentences)
             current == IF merges
                        THEN sentences[i] \o <<" ">> \o sentences[i + 1]
                        ELSE sentences[i]
             next_i == IF merges THEN i + 2 ELSE i + 1
         IN  (IF Len(current) > MaxSentenceLength
              THEN re_split(current, 1, <<>>, {","})
              ELSE <<current>>)
             \o merge_sentences(sentences, next_i)

split_into_sentences(text) ==
    merge_sentences(long_enough(re_split(strip(text), 1, <<>>, SentenceEnd)), 1)

\* The texts the clients of the model send (all non-empty).
HiText == <<"H", "i", ".">>
HelloText == <<"H", "e", "l", "l", "o", ".">>
OneTwoThree ==
    <<"O", "n", "e", ".", " ", "T", "w", "o", ".", " ",
      "T", "h", "r", "e", "e", ".">>
OneToFive ==
    OneTwoThree \o <<" ", "F", "o", "u", "r", ".", " ", "F", "i", "v", "e", ".">>
Texts == <<HiText, HelloText, OneTwoThree, OneToFive>>
TextIds == 1..NumTexts

\* len(sentences) of line 422 for each text.
SentenceCount == [t \in DOMAIN Texts |-> Len(split_into_sentences(Texts[t]))]

VARIABLES
    tts_model,          \* TRUE iff the TTS model was loaded by _setup_models
    tts_queue,          \* self.tts_queue: sequence of request numbers
    is_processing_tts,  \* self.is_processing_tts
    current_tts_id,     \* self.current_tts_id (None or a messageId)
    tts_lock,           \* self.tts_lock: 0 when free, else the connection whose
                        \* stop_tts handler holds it
    loop_blocked,       \* the event-loop thread is stuck in tts_lock.acquire()
    requests,           \* every synthesize_speech command so far, by number:
                        \* the tts_request dict (websocket, message_id,
                        \* streaming, text as an index of Texts) and
                        \* sentences = len(_split_into_sentences(text));
                        \* the text of a single-shot request is not kept
    new_tasks,          \* _process_tts_queue tasks created and not yet run
    handlers,           \* the handler coroutines between their dequeue and
                        \* their return: records [req, pc, i]
    conn_pc,            \* per connection: "recv" (waiting for its next
                        \* message), "send" (its command handler is suspended
                        \* in _send_response) or "acquire_lock"
    events,             \* per request, the events handed to websocket.send
                        \* for it, in order
    replies,            \* per connection, the replies its current command
                        \* handler has handed to websocket.send
    fate,               \* history: where each request is, or how it ended;
                        \* "queued_in_stop" is a request put in the queue
                        \* while a stop_tts handler had not yet returned
    synth_results,      \* history: per request, the results of its
                        \* _generate_speech calls, in order
    speech_buffer,      \* len(self.speech_buffer): the frames buffered by the
                        \* capture thread
    silence_counter,    \* self.silence_counter
    audio_queue,        \* self.audio_queue: the utterances handed to the
                        \* recognition thread, each by its number of frames
    broadcast_queue,    \* self.broadcast_queue: the speech_recognized
                        \* messages to broadcast, each by the number of
                        \* frames of its utterance
    running,            \* self.running
    websocket_clients,  \* self.websocket_clients
    peer_open,          \* the connections whose transport is open: a send to
                        \* another one raises ConnectionClosed
    last_message,       \* history: per connection, the last message its
                        \* handler took from the socket ("none" before)
    last_listening,     \* history: the last start_listening or
                        \* stop_listening command handled ("none" before)
    send_result,        \* history: per connection, what the last
                        \* _send_response to it returned ("unset" before
                        \* the first one on a new socket)
    sweep,              \* _broadcast_message: the state of its for loop
    delivered,          \* history: per connection, the broadcast messages
                        \* its socket has accepted, in order
    split_text,         \* the text of the last call of _split_into_sentences
                        \* made on its own
    split_result,       \* and the list it returned
    gap_in_buffer,      \* the buffered frames span a silence of
                        \* silence_threshold frames or more
    gap_in_utterance,   \* so did the frames of the utterance queued last
    last_flush,         \* what the frame read last did with the buffer
    capture_log,        \* the record it made audio_capture log, if any
    transcription,      \* the outcome of the latest transcription
    recognition_log,    \* the record it made speech_recognition log, if any
    shutdown_event,     \* threading.Event: set by stop()
    audio_thread,       \* "running" or "exited"
    recognition_thread, \* "running" or "exited"
    stop_pc,            \* stop(): "idle", "closing" or "done"
    stop_copy,          \* its self.websocket_clients.copy()
    closed              \* the connections it has closed

vars == <<tts_model, tts_queue, is_processing_tts, current_tts_id, tts_lock,
          loop_blocked, requests, new_tasks, handlers, conn_pc, events,
          replies, fate, synth_results, speech_buffer, silence_counter,
          audio_queue, broadcast_queue, running, websocket_clients,
          peer_open, last_message, last_listening, send_result, sweep,
          delivered, split_text, split_result, gap_in_buffer,
          gap_in_utterance, last_flush, capture_log, transcription,
          recognition_log, shutdown_event, audio_thread, recognition_thread,
          stop_pc, stop_copy, closed>>

\* The shutdown: the event, the two threads and stop().
stop_vars ==
    <<shutdown_event, audio_thread, recognition_thread, stop_pc, stop_copy,
      closed>>

\* A call of _split_into_sentences and its result.
split_vars == <<split_text, split_result>>

\* The state of the connection registry and of the broadcast task.
net_vars ==
    <<running, websocket_clients, peer_open, last_message, last_listening,
      send_result, sweep, delivered>>

\* The state of the capture and recognition threads.
audio_vars ==
    <<speech_buffer, silence_counter, audio_queue, broadcast_queue,
      gap_in_buffer, gap_in_utterance, last_flush, capture_log,
      transcription, recognition_log>>

\* The part of it that only audio_capture writes.
capture_vars ==
    <<speech_buffer, silence_counter, gap_in_buffer, gap_in_utterance,
      last_flush, capture_log>>

\* The state of the synthesis queue, its driver and the connections.
tts_vars ==
    <<tts_model, tts_queue, is_processing_tts, current_tts_id, tts_lock,
      loop_blocked, requests, new_tasks, handlers, conn_pc, events, replies,
      fate, synth_results>>

\* ------------------------------------------------------------ events
\* One call of _send_response(websocket, command, payload) made for a request.
EventToNextClient(ws, command, chunk_index, total, is_final) ==
    [to |-> (ws % NumConns) + 1, command |-> command,
     chunk_index |-> chunk_index, total |-> total, is_final |-> is_final]

Event(ws, command, chunk_index, total, is_final) ==
    [to |-> ws, command |-> command, chunk_index |-> chunk_index,
     total |-> total, is_final |-> is_final]

Plain(ws, command) == Event(ws, command, -1, -1, FALSE)

\* A reply of a command handler: its command and its payload's text.
Reply(command, message) == [command |-> command, message |-> message]

\* ------------------------------------------------------------ the driver
\* The part of the state the driver and the handlers change.
Now ==
    [tts_queue |-> tts_queue, is_processing_tts |-> is_processing_tts,
     current_tts_id |-> current_tts_id, handlers |-> handlers, events |-> events,
     fate |-> fate, synth_results |-> synth_results,
     loop_blocked |-> loop_blocked]

Become(s) ==
    /\ tts_queue' = s.tts_queue
    /\ is_processing_tts' = s.is_processing_tts
    /\ current_tts_id' = s.current_tts_id
    /\ handlers' = s.handlers
    /\ events' = s.events
    /\ fate' = s.fate
    /\ synth_results' = s.synth_results
    /\ loop_blocked' = s.loop_blocked

Send(s, r, ev) == [s EXCEPT !.events[r] = Append(@, ev)]

\* The handler of request r waits at pc.  A request is "in_flight" from its
\* dequeue to its handler's return, "superseded" instead once a stop_tts has
\* reset the processing state under it.
Suspend(s, r, pc, i) ==
    [s EXCEPT !.handlers = @ \cup {[req |-> r, pc |-> pc, i |-> i]},
              !.fate[r] = IF @ = "superseded" THEN @ ELSE "in_flight"]

\* The handler of request r returns: a superseded request ends "cancelled".
Ended(s, r, how) ==
    [s EXCEPT !.fate[r] = CASE @ = "superseded" -> "cancelled"
                            [] @ = "queued_in_stop" -> "skipped_in_stop"
                            [] OTHER -> how]

CancelledAlways(s, r) == TRUE

\* `not self.is_processing_tts or self.current_tts_id != message_id`
Cancelled(s, r) ==
    \/ ~s.is_processing_tts
    \/ s.current_tts_id # requests[r].message_id

\* `with self.tts_lock:` reached while a suspended stop_tts handler holds it.
BlockOn(s, r, i) ==
    [Suspend(s, r, "acquire_lock", i) EXCEPT !.loop_blocked = TRUE]

RECURSIVE process_tts_queue_loop(_)

\* A handler returns to the driver: task_done() and the next `while` test.
Return(s, r, how) == process_tts_queue_loop(Ended(s, r, how))

\* _handle_single_tts from its entry to its first await.
handle_single_tts(s, r) ==
    IF tts_lock # 0 THEN BlockOn(s, r, 0)
    ELSE IF Cancelled(s, r) THEN Return(s, r, "skipped")
    ELSE Suspend(s, r, "synth", 0)

\* _handle_streaming_tts at the top of `for i, sentence in enumerate(sentences)`
\* with index i, up to the next await; past the last index it sends
\* tts_stream_complete.
StreamSentence(s, r, i) ==
    IF i < requests[r].sentences
    THEN IF tts_lock # 0 THEN BlockOn(s, r, i)
         ELSE IF Cancelled(s, r) THEN Return(s, r, "abandoned")
         ELSE Suspend(s, r, "synth_chunk", i)
    ELSE Suspend(Send(s, r, Event(requests[r].websocket, "tts_stream_complete",
                                  -1, requests[r].sentences, FALSE)),
                 r, "send_complete", i)

\* _handle_streaming_tts from its entry to its first await.
handle_streaming_tts(s, r) ==
    IF tts_lock # 0 THEN BlockOn(s, r, 0)
    ELSE IF Cancelled(s, r) THEN Return(s, r, "skipped")
    ELSE Suspend(Send(s, r, Event(requests[r].websocket, "tts_stream_start",
                                  -1, requests[r].sentences, FALSE)),
                 r, "send_start", 0)

\* The `while not self.tts_queue.empty()` loop of _process_tts_queue and its
\* `finally`, from the loop test to the next await or to the task's end.
process_tts_queue_loop(s) ==
    IF s.tts_queue # <<>>
    THEN LET r == Head(s.tts_queue)
             s1 == [s EXCEPT !.tts_queue = Tail(@),
                             !.current_tts_id = requests[r].message_id]
         IN  IF requests[r].streaming
             THEN handle_streaming_tts(s1, r)
             ELSE handle_single_tts(s1, r)
    ELSE IF tts_lock # 0
         THEN [s EXCEPT !.loop_blocked = TRUE]
         ELSE [s EXCEPT !.is_processing_tts = FALSE, !.current_tts_id = None]

\* _process_tts_queue from the task's first scheduling.
process_tts_queue(s) ==
    IF tts_lock # 0 THEN [s EXCEPT !.loop_blocked = TRUE]
    ELSE IF s.is_processing_tts THEN s
    ELSE IF s.tts_queue = <<>> THEN s
    ELSE process_tts_queue_loop([s EXCEPT !.is_processing_tts = TRUE])

\* ------------------------------------------------------------------ Init
\* _broadcast_message is not running.
NoSweep ==
    [pc |-> "idle", message |-> 0, current |-> 0, snapshot |-> {},
     visited |-> {}, disconnected_clients |-> {}, outcome |-> "none"]

\* The service has been constructed and started, and the clients have
\* connected and read their welcome message.
Started ==
    /\ tts_model \in BOOLEAN
    /\ tts_queue = <<>>
    /\ is_processing_tts = FALSE
    /\ current_tts_id = None
    /\ tts_lock = 0
    /\ loop_blocked = FALSE
    /\ requests = <<>>
    /\ new_tasks = 0
    /\ handlers = {}
    /\ conn_pc = [c \in Conns |-> "recv"]
    /\ events = <<>>
    /\ replies = [c \in Conns |-> <<>>]
    /\ fate = <<>>
    /\ synth_results = <<>>
    /\ speech_buffer = 0
    /\ silence_counter = 0
    /\ broadcast_queue = <<>>
    /\ running = TRUE
    /\ websocket_clients = Conns
    /\ peer_open = Conns
    /\ last_message = [c \in Conns |-> "none"]
    /\ last_listening = "none"
    /\ send_result = [c \in Conns |-> "None"]
    /\ sweep = NoSweep
    /\ delivered = [c \in Conns |-> <<>>]
    /\ split_text = <<>>
    /\ split_result = <<>>
    /\ gap_in_buffer = FALSE
    /\ gap_in_utterance = FALSE
    /\ last_flush = "none"
    /\ capture_log = "none"
    /\ transcription = "none"
    /\ recognition_log = "none"
    /\ shutdown_event = FALSE
    /\ audio_thread = "running"
    /\ recognition_thread = "running"
    /\ stop_pc = "idle"
    /\ stop_copy = {}
    /\ closed = {}

Init == Started /\ audio_queue = <<>>

\* ------------------------------------------------- connection commands
\* queue.Queue(maxsize=10).put_nowait raises queue.Full on a full queue.
QueueFullOffByOne(q) == Len(q) > TtsQueueMaxsize

QueueFull(q) == Len(q) >= TtsQueueMaxsize

\* synthesize_speech with non-empty text: _handle_tts_request.
SynthesizeSpeech(c, mid, streaming, t, limit) ==
    /\ ~loop_blocked
    /\ conn_pc[c] = "recv"
    /\ Len(requests) < limit
    /\ LET r == Len(requests) + 1
       IN  /\ requests' = Append(requests,
                  [websocket |-> c, message_id |-> mid,
                   streaming |-> streaming,
                   text |-> IF streaming THEN t ELSE 0,
                   sentences |-> IF streaming THEN SentenceCount[t] ELSE 0])
           /\ synth_results' = Append(synth_results, <<>>)
           /\ IF ~tts_model
              THEN /\ events' = Append(events, <<Plain(c, "speech_error")>>)
                   /\ replies' = [replies EXCEPT ![c] =
                          <<Reply("speech_error", "TTS model not loaded")>>]
                   /\ conn_pc' = [conn_pc EXCEPT ![c] = "send"]
                   /\ fate' = Append(fate, "no_model")
                   /\ UNCHANGED <<tts_queue, new_tasks>>
              ELSE IF ~QueueFull(tts_queue)
              THEN /\ tts_queue' = Append(tts_queue, r)
                   /\ new_tasks' = new_tasks + 1
                   /\ fate' = Append(fate, IF tts_lock = 0 THEN "queued"
                                            ELSE "queued_in_stop")
                   /\ events' = Append(events, <<>>)
                   /\ UNCHANGED <<conn_pc, replies>>
              ELSE /\ events' = Append(events, <<Plain(c, "speech_error")>>)
                   /\ replies' = [replies EXCEPT ![c] =
                          <<Reply("speech_error",
                                  "TTS queue full, please try again later")>>]
                   /\ conn_pc' = [conn_pc EXCEPT ![c] = "send"]
                   /\ fate' = Append(fate, "rejected")
                   /\ UNCHANGED <<tts_queue, new_tasks>>
    /\ UNCHANGED <<tts_model, is_processing_tts, current_tts_id, tts_lock,
                   loop_blocked, handlers>>
    /\ UNCHANGED <<audio_vars, net_vars, split_vars, stop_vars>>

\* stop_tts: _handle_stop_tts up to its await of _send_response, which it
\* makes inside `with self.tts_lock`.
StopTts(c) ==
    /\ ~loop_blocked
    /\ conn_pc[c] = "recv"
    /\ IF tts_lock # 0
       THEN /\ loop_blocked' = TRUE
            /\ conn_pc' = [conn_pc EXCEPT ![c] = "acquire_lock"]
            /\ UNCHANGED <<tts_queue, is_processing_tts, current_tts_id,
                           tts_lock, replies, fate>>
       ELSE /\ tts_lock' = c
            /\ conn_pc' = [conn_pc EXCEPT ![c] = "send"]
            /\ replies' = [replies EXCEPT ![c] =
                   <<Reply("tts_stopped",
                           IF is_processing_tts
                           THEN "TTS processing stopped"
                           ELSE "No TTS currently processing")>>]
            /\ IF is_processing_tts
               THEN /\ tts_queue' = <<>>
                    /\ is_processing_tts' = FALSE
                    /\ current_tts_id' = None
                    /\ fate' = [r \in DOMAIN fate |->
                                  CASE fate[r] \in {"queued", "queued_in_stop"}
                                         -> "drained"
                                    [] fate[r] = "in_flight" -> "superseded"
                                    [] OTHER -> fate[r]]
               ELSE UNCHANGED <<tts_queue, is_processing_tts, current_tts_id,
                                fate>>
            /\ UNCHANGED loop_blocked
    /\ UNCHANGED <<tts_model, requests, new_tasks, handlers, events,
                   synth_results>>
    /\ UNCHANGED <<audio_vars, net_vars, split_vars, stop_vars>>

\* The send of tts_stopped completes: the `with` block ends, the handler
\* returns and the connection reads its next message.
StopTtsSent(c) ==
    /\ ~loop_blocked
    /\ conn_pc[c] = "send"
    /\ tts_lock = c
    /\ conn_pc' = [conn_pc EXCEPT ![c] = "recv"]
    /\ replies' = [replies EXCEPT ![c] = <<>>]
    /\ tts_lock' = 0
    /\ UNCHANGED <<tts_model, tts_queue, is_processing_tts, current_tts_id,
                   loop_blocked, requests, new_tasks, handlers, events,
                   fate, synth_results>>
    /\ UNCHANGED <<audio_vars, net_vars, split_vars, stop_vars>>

\* The send of a speech_error reply of _handle_tts_request completes.
ErrorSent(c) ==
    /\ ~loop_blocked
    /\ conn_pc[c] = "send"
    /\ tts_lock # c
    /\ conn_pc' = [conn_pc EXCEPT ![c] = "recv"]
    /\ replies' = [replies EXCEPT ![c] = <<>>]
    /\ UNCHANGED <<tts_model, tts_queue, is_processing_tts, current_tts_id,
                   tts_lock, loop_blocked, requests, new_tasks, handlers,
                   events, fate, synth_results>>
    /\ UNCHANGED <<audio_vars, net_vars, split_vars, stop_vars>>

\* ------------------------------------------------------ coroutine steps
Rest ==
    /\ UNCHANGED <<tts_model, tts_lock, requests, conn_pc, replies>>
    /\ UNCHANGED <<audio_vars, net_vars, split_vars, stop_vars>>

\* A task made by asyncio.create_task(self._process_tts_queue()) runs.
StartTask ==
    /\ ~loop_blocked
    /\ new_tasks > 0
    /\ new_tasks' = new_tasks - 1
    /\ Become(process_tts_queue(Now))
    /\ Rest

Resumed(h) == [Now EXCEPT !.handlers = @ \ {h}]

Noted(s, r, o) == [s EXCEPT !.synth_results[r] = Append(@, o)]

\* _handle_single_tts after `await loop.run_in_executor(None, _generate_speech, text)`.
SingleSynthDone(h, o) ==
    /\ ~loop_blocked
    /\ h \in handlers
    /\ h.pc = "synth"
    /\ LET r == h.req
           s == Noted(Resumed(h), r, o)
           ws == requests[r].websocket
       IN  IF o = "ok"
           THEN Become(Suspend(Send(s, r, Plain(ws, "speech_generated")),
                               r, "send_generated", 0))
           ELSE Become(Suspend(Send(s, r, Plain(ws, "speech_error")),
                               r, "send_error", 0))
    /\ UNCHANGED new_tasks
    /\ Rest

\* The last send of a handler completes and the handler returns.
TerminalSent(h) ==
    /\ ~loop_blocked
    /\ h \in handlers
    /\ h.pc \in {"send_generated", "send_error", "send_complete",
                 "send_stream_error"}
    /\ Become(Return(Resumed(h), h.req, "returned"))
    /\ UNCHANGED new_tasks
    /\ Rest

\* The send of tts_stream_start completes.
StreamStartSent(h) ==
    /\ ~loop_blocked
    /\ h \in handlers
    /\ h.pc = "send_start"
    /\ Become(StreamSentence(Resumed(h), h.req, 0))
    /\ UNCHANGED new_tasks
    /\ Rest

\* _handle_streaming_tts after `await loop.run_in_executor(...)` of sentence i.
ChunkSynthDone(h, o) ==
    /\ ~loop_blocked
    /\ h \in handlers
    /\ h.pc = "synth_chunk"
    /\ LET r == h.req
           s == Noted(Resumed(h), r, o)
           ws == requests[r].websocket
           n == requests[r].sentences
       IN  CASE o = "ok" ->
                  Become(Suspend(Send(s, r, Event(ws, "tts_stream_chunk", h.i,
                                                  n, h.i = n - 1)),
                                 r, "send_chunk", h.i))
             [] o = "none" -> Become(StreamSentence(s, r, h.i + 1))
             [] o = "raise" ->
                  Become(Suspend(Send(s, r, Plain(ws, "tts_stream_error")),
                                 r, "send_stream_error", h.i))
    /\ UNCHANGED new_tasks
    /\ Rest

\* The send of a tts_stream_chunk completes; asyncio.sleep(0.1) begins.
ChunkSent(h) ==
    /\ ~loop_blocked
    /\ h \in handlers
    /\ h.pc = "send_chunk"
    /\ Become(Suspend(Resumed(h), h.req, "sleep", h.i))
    /\ UNCHANGED new_tasks
    /\ Rest

\* asyncio.sleep(0.1) ends; the for loop goes to its next index.
SleepDone(h) ==
    /\ ~loop_blocked
    /\ h \in handlers
    /\ h.pc = "sleep"
    /\ Become(StreamSentence(Resumed(h), h.req, h.i + 1))
    /\ UNCHANGED new_tasks
    /\ Rest

\* ------------------------------------------------- a call of the splitter
\* _split_into_sentences(text) is called and returns.
SplitText(text) ==
    /\ split_text' = text
    /\ split_result' = split_into_sentences(text)
    /\ UNCHANGED <<tts_vars, audio_vars, net_vars, stop_vars>>

\* ------------------------------------------- connections and commands
\* The messages the clients of the model send besides synthesize_speech and
\* stop_tts: four JSON objects, by their command ("foo" is no command of the
\* service), a text that is not JSON and a JSON array.
InvalidJson == "{not json"
JsonArray == "[1, 2]"
Messages ==
    {"start_listening", "stop_listening", "get_status", "foo", InvalidJson,
     JsonArray}

\* json.loads(message): the type of its result, or the exception it raises.
json_loads(m) ==
    CASE m = InvalidJson -> "JSONDecodeError"
      [] m = JsonArray -> "list"
      [] OTHER -> "dict"

\* The payload of the status event of get_status.
Status ==
    [listening |-> running,
     tts_queue_size |-> Len(tts_queue),
     is_processing_tts |-> is_processing_tts,
     current_tts_id |-> current_tts_id]

\* _handle_websocket_message on message m: the replies it hands to
\* _send_response.  A JSONDecodeError, and the AttributeError of data.get on
\* a list, are caught and logged; a command of no branch falls through the
\* if/elif chain.
handle_websocket_message(m) ==
    CASE json_loads(m) # "dict" -> <<>>
      [] m = "start_listening" -> <<Reply("listening_started", "ok")>>
      [] m = "stop_listening" -> <<Reply("listening_stopped", "ok")>>
      [] m = "get_status" -> <<Reply("status", Status)>>
      [] OTHER -> <<>>

\* handle_client takes message m from the socket of connection c and awaits
\* _handle_websocket_message up to its first suspension.
HandleMessage(c, m) ==
    /\ ~loop_blocked
    /\ conn_pc[c] = "recv"
    /\ last_message' = [last_message EXCEPT ![c] = m]
    /\ last_listening' =
         IF m \in {"start_listening", "stop_listening"} THEN m
         ELSE last_listening
    /\ replies' = [replies EXCEPT ![c] = handle_websocket_message(m)]
    /\ conn_pc' = IF handle_websocket_message(m) = <<>> THEN conn_pc
                  ELSE [conn_pc EXCEPT ![c] = "send"]
    /\ UNCHANGED <<tts_model, tts_queue, is_processing_tts, current_tts_id,
                   tts_lock, loop_blocked, requests, new_tasks, handlers,
                   events, fate, synth_results>>
    /\ UNCHANGED <<running, websocket_clients, peer_open, send_result, sweep,
                   delivered>>
    /\ UNCHANGED <<audio_vars, split_vars, stop_vars>>

\* The _send_response of a reply of connection c ends: websocket.send has
\* taken the message, or has raised because the peer is gone, which
\* _send_response catches and logs.  It returns None either way, and the
\* handler goes back to reading the socket.
ReplySent(c) ==
    /\ ~loop_blocked
    /\ conn_pc[c] = "send"
    /\ tts_lock # c
    /\ send_result' = [send_result EXCEPT ![c] = "None"]
    /\ conn_pc' = [conn_pc EXCEPT ![c] = "recv"]
    /\ replies' = [replies EXCEPT ![c] = <<>>]
    /\ UNCHANGED <<tts_model, tts_queue, is_processing_tts, current_tts_id,
                   tts_lock, loop_blocked, requests, new_tasks, handlers,
                   events, fate, synth_results>>
    /\ UNCHANGED <<running, websocket_clients, peer_open, last_message,
                   last_listening, sweep, delivered>>
    /\ UNCHANGED <<audio_vars, split_vars, stop_vars>>

\* The peer of connection c closes it, or the network drops it.
PeerCloses(c) ==
    /\ conn_pc[c] # "closed"
    /\ c \in peer_open
    /\ peer_open' = peer_open \ {c}
    /\ UNCHANGED <<running, websocket_clients, last_message, last_listening,
                   send_result, sweep, delivered>>
    /\ UNCHANGED <<tts_vars, audio_vars, split_vars, stop_vars>>

\* `async for message in websocket` of handle_client raises ConnectionClosed:
\* the `finally` discards the connection and the handler ends.
HandlerEnds(c) ==
    /\ ~loop_blocked
    /\ conn_pc[c] = "recv"
    /\ c \notin peer_open
    /\ websocket_clients' = websocket_clients \ {c}
    /\ conn_pc' = [conn_pc EXCEPT ![c] = "closed"]
    /\ UNCHANGED <<tts_model, tts_queue, is_processing_tts, current_tts_id,
                   tts_lock, loop_blocked, requests, new_tasks, handlers,
                   events, replies, fate, synth_results>>
    /\ UNCHANGED <<running, peer_open, last_message, last_listening,
                   send_result, sweep, delivered>>
    /\ UNCHANGED <<audio_vars, split_vars, stop_vars>>

\* A client connects (number c is used again for the new socket):
\* handle_client registers it and sends the welcome message.
Connect(c) ==
    /\ ~loop_blocked
    /\ conn_pc[c] = "closed"
    /\ websocket_clients' = websocket_clients \cup {c}
    /\ peer_open' = peer_open \cup {c}
    /\ conn_pc' = [conn_pc EXCEPT ![c] = "send"]
    /\ replies' = [replies EXCEPT ![c] =
           <<Reply("connected", "Connected to Ally Speech Service")>>]
    /\ last_message' = [last_message EXCEPT ![c] = "none"]
    /\ send_result' = [send_result EXCEPT ![c] = "unset"]
    /\ UNCHANGED <<tts_model, tts_queue, is_processing_tts, current_tts_id,
                   tts_lock, loop_blocked, requests, new_tasks, handlers,
                   events, fate, synth_results>>
    /\ UNCHANGED <<running, last_listening, sweep, delivered>>
    /\ UNCHANGED <<audio_vars, split_vars, stop_vars>>

\* --------------------------------------------------------- broadcast
BroadcastWithoutEmptyTest ==
    /\ ~loop_blocked
    /\ running
    /\ sweep.pc = "idle"
    /\ broadcast_queue # <<>>
    /\ broadcast_queue' = Tail(broadcast_queue)
    /\ \E x \in Conns :
          sweep' = [pc |-> "send", message |-> Head(broadcast_queue),
                    current |-> x, snapshot |-> websocket_clients,
                    visited |-> {x}, disconnected_clients |-> {},
                    outcome |-> "none"]
    /\ UNCHANGED <<running, websocket_clients, peer_open, last_message,
                   last_listening, send_result, delivered>>
    /\ UNCHANGED <<capture_vars, audio_queue, transcription, recognition_log>>
    /\ UNCHANGED <<tts_vars, split_vars, stop_vars>>

\* _broadcast_handler takes a message from broadcast_queue and awaits
\* _broadcast_message up to its first send: nothing is done for an empty
\* registry; else the for loop makes its set iterator and hands the message to
\* the send of the first client (a set has no order of its own).
BroadcastStart ==
    /\ ~loop_blocked
    /\ running
    /\ sweep.pc = "idle"
    /\ broadcast_queue # <<>>
    /\ broadcast_queue' = Tail(broadcast_queue)
    /\ IF websocket_clients = {}
       THEN sweep' = [NoSweep EXCEPT !.message = Head(broadcast_queue),
                                     !.outcome = "no_clients"]
       ELSE \E x \in websocket_clients :
               sweep' = [pc |-> "send", message |-> Head(broadcast_queue),
                         current |-> x, snapshot |-> websocket_clients,
                         visited |-> {x}, disconnected_clients |-> {},
                         outcome |-> "none"]
    /\ UNCHANGED <<running, websocket_clients, peer_open, last_message,
                   last_listening, send_result, delivered>>
    /\ UNCHANGED <<capture_vars, audio_queue, transcription, recognition_log>>
    /\ UNCHANGED <<tts_vars, split_vars, stop_vars>>

\* `await client.send(message)` of the sweep ends: the socket has taken the
\* message, or the send has raised and the client is put in
\* disconnected_clients.  Then the for loop asks its iterator for the next
\* client: the iterator raises RuntimeError ("Set changed size during
\* iteration") when the registry has another size than at the start of the
\* loop, which ends _broadcast_message at once (_broadcast_handler logs it);
\* past the last client, `self.websocket_clients -= disconnected_clients`.
SweepSendDone ==
    /\ ~loop_blocked
    /\ sweep.pc = "send"
    /\ LET x == sweep.current
           ok == x \in peer_open
           failed == IF ok THEN sweep.disconnected_clients
                     ELSE sweep.disconnected_clients \cup {x}
           todo == websocket_clients \ sweep.visited
       IN  /\ delivered' = IF ok
                           THEN [delivered EXCEPT ![x] = Append(@, sweep.message)]
                           ELSE delivered
           /\ IF Cardinality(websocket_clients) # Cardinality(sweep.snapshot)
              THEN /\ sweep' = [sweep EXCEPT !.pc = "idle", !.current = 0,
                                             !.disconnected_clients = failed,
                                             !.outcome = "RuntimeError"]
                   /\ UNCHANGED websocket_clients
              ELSE IF todo = {}
              THEN /\ sweep' = [sweep EXCEPT !.pc = "idle", !.current = 0,
                                             !.disconnected_clients = failed,
                                             !.outcome = "completed"]
                   /\ websocket_clients' = websocket_clients \ failed
              ELSE /\ \E y \in todo :
                         sweep' = [sweep EXCEPT !.current = y,
                                                !.visited = @ \cup {y},
                                                !.disconnected_clients = failed]
                   /\ UNCHANGED websocket_clients
    /\ UNCHANGED <<running, peer_open, last_message, last_listening,
                   send_result>>
    /\ UNCHANGED <<tts_vars, audio_vars, split_vars, stop_vars>>

\* ------------------------------------------- capture and recognition
LongEnoughMinusOne(n) == n >= MinSpeechChunks - 1

\* `len(self.speech_buffer) >= self.config.min_speech_chunks`
LongEnough(n) == n >= MinSpeechChunks

\* `if self.audio_queue.qsize() < 3`
AudioQueueToCapacity(q) == Len(q) < AudioQueueMaxsize

AudioQueueHasRoom(q) == Len(q) < AudioQueueGate

\* broadcast_queue.put_nowait raises queue.Full on a full queue.
BroadcastQueueNeverFull(q) == FALSE

BroadcastQueueFull(q) == Len(q) >= BroadcastQueueMaxsize

\* What speech_recognition logs for a transcription outcome.
RecognitionLog(text, q) ==
    CASE text = "error" -> "Error in speech recognition"
      [] text = "text" /\ BroadcastQueueFull(q) ->
             "Broadcast queue full, dropping speech recognition result"
      [] OTHER -> "none"

\* audio_capture reads a frame that the VAD classifies as speech; the model
\* follows the buffer up to `limit` frames.
SpeechFrame(limit) ==
    /\ audio_thread = "running"
    /\ ~shutdown_event
    /\ speech_buffer < limit
    /\ speech_buffer' = speech_buffer + 1
    /\ silence_counter' = 0
    /\ gap_in_buffer' =
         (gap_in_buffer \/
          (speech_buffer > 0 /\ silence_counter >= SilenceThreshold))
    /\ last_flush' = "none"
    /\ capture_log' = "none"
    /\ UNCHANGED <<audio_queue, broadcast_queue, gap_in_utterance,
                   transcription, recognition_log>>
    /\ UNCHANGED <<tts_vars, net_vars, split_vars, stop_vars>>

\* stream.read or self.vad.is_speech raises on a frame: the `except` of the
\* capture loop logs it and the loop reads the next frame.
VadRaises ==
    /\ audio_thread = "running"
    /\ ~shutdown_event
    /\ last_flush' = "none"
    /\ capture_log' = "Error in audio capture"
    /\ UNCHANGED <<speech_buffer, silence_counter, gap_in_buffer,
                   gap_in_utterance, audio_queue, broadcast_queue,
                   transcription, recognition_log>>
    /\ UNCHANGED <<tts_vars, net_vars, split_vars, stop_vars>>

\* audio_capture reads a frame classified as silence and calls
\* _process_speech_buffer; the model follows the counter up to MaxSilence and
\* reads frames while at most `queued` utterances wait for recognition.
SilenceFrame(queued) ==
    /\ audio_thread = "running"
    /\ ~shutdown_event
    /\ silence_counter < MaxSilence
    /\ Len(audio_queue) <= queued
    /\ silence_counter' = silence_counter + 1
    /\ IF /\ LongEnough(speech_buffer)
          /\ \/ silence_counter' >= SilenceThreshold
             \/ speech_buffer >= MaxSpeechChunks
       THEN LET put == /\ AudioQueueHasRoom(audio_queue)
                       /\ Len(audio_queue) < AudioQueueMaxsize
            IN  /\ audio_queue' = IF put THEN Append(audio_queue, speech_buffer)
                                  ELSE audio_queue
                /\ last_flush' = IF put THEN "queued" ELSE "dropped"
                /\ gap_in_utterance' = IF put THEN gap_in_buffer
                                       ELSE gap_in_utterance
                /\ capture_log' =
                     IF AudioQueueHasRoom(audio_queue) /\ ~put
                     THEN "Audio queue full, dropping speech data"
                     ELSE "none"
                /\ speech_buffer' = 0
                /\ gap_in_buffer' = FALSE
       ELSE /\ last_flush' = "none"
            /\ capture_log' = "none"
            /\ UNCHANGED <<audio_queue, speech_buffer, gap_in_buffer,
                           gap_in_utterance>>
    /\ UNCHANGED <<broadcast_queue, transcription, recognition_log>>
    /\ UNCHANGED <<tts_vars, net_vars, split_vars, stop_vars>>

RecognizeNewestFirst(text) ==
    /\ recognition_thread = "running"
    /\ ~shutdown_event
    /\ audio_queue # <<>>
    /\ audio_queue' = SubSeq(audio_queue, 1, Len(audio_queue) - 1)
    /\ broadcast_queue' =
         IF text = "text" /\ ~BroadcastQueueFull(broadcast_queue)
         THEN Append(broadcast_queue, audio_queue[Len(audio_queue)])
         ELSE broadcast_queue
    /\ transcription' = text
    /\ recognition_log' = RecognitionLog(text, broadcast_queue)
    /\ UNCHANGED capture_vars
    /\ UNCHANGED <<tts_vars, net_vars, split_vars, stop_vars>>

RecognizeEmptyToo(text) ==
    /\ recognition_thread = "running"
    /\ ~shutdown_event
    /\ audio_queue # <<>>
    /\ audio_queue' = Tail(audio_queue)
    /\ broadcast_queue' =
         IF text # "error" /\ ~BroadcastQueueFull(broadcast_queue)
         THEN Append(broadcast_queue, Head(audio_queue))
         ELSE broadcast_queue
    /\ transcription' = text
    /\ recognition_log' = RecognitionLog(text, broadcast_queue)
    /\ UNCHANGED capture_vars
    /\ UNCHANGED <<tts_vars, net_vars, split_vars, stop_vars>>

\* speech_recognition takes an utterance and transcribes it; `text` tells
\* whether the transcription has text left after strip().  A failed
\* transcription is logged and the loop goes on.
Recognize(text) ==
    /\ recognition_thread = "running"
    /\ ~shutdown_event
    /\ audio_queue # <<>>
    /\ audio_queue' = Tail(audio_queue)
    /\ broadcast_queue' =
         IF text = "text" /\ ~BroadcastQueueFull(broadcast_queue)
         THEN Append(broadcast_queue, Head(audio_queue))
         ELSE broadcast_queue
    /\ transcription' = text
    /\ recognition_log' = RecognitionLog(text, broadcast_queue)
    /\ UNCHANGED capture_vars
    /\ UNCHANGED <<tts_vars, net_vars, split_vars, stop_vars>>

\* ------------------------------------------------------------ shutdown
\* stop() up to its first `await client.close()`: it clears running, sets
\* shutdown_event and takes a copy of the registry; with no client it goes on
\* to its end.
Stop ==
    /\ ~loop_blocked
    /\ stop_pc = "idle"
    /\ running' = FALSE
    /\ shutdown_event' = TRUE
    /\ stop_copy' = websocket_clients
    /\ stop_pc' = IF websocket_clients = {} THEN "done" ELSE "closing"
    /\ UNCHANGED <<audio_thread, recognition_thread, closed>>
    /\ UNCHANGED <<websocket_clients, peer_open, last_message, last_listening,
                   send_result, sweep, delivered>>
    /\ UNCHANGED <<tts_vars, audio_vars, split_vars>>

\* `await client.close()` of stop() ends for client c of the copy: the
\* connection is closed; after the last one stop() runs to its end.
StopCloseDone(c) ==
    /\ ~loop_blocked
    /\ stop_pc = "closing"
    /\ c \in stop_copy \ closed
    /\ closed' = closed \cup {c}
    /\ peer_open' = peer_open \ {c}
    /\ stop_pc' = IF closed' = stop_copy THEN "done" ELSE "closing"
    /\ UNCHANGED <<shutdown_event, audio_thread, recognition_thread, stop_copy>>
    /\ UNCHANGED <<running, websocket_clients, last_message, last_listening,
                   send_result, sweep, delivered>>
    /\ UNCHANGED <<tts_vars, audio_vars, split_vars>>

\* `while not self.shutdown_event.is_set()` of audio_capture ends the loop.
CaptureExits ==
    /\ shutdown_event
    /\ audio_thread = "running"
    /\ audio_thread' = "exited"
    /\ UNCHANGED <<shutdown_event, recognition_thread, stop_pc, stop_copy,
                   closed>>
    /\ UNCHANGED <<tts_vars, audio_vars, net_vars, split_vars>>

\* `while not self.shutdown_event.is_set()` of speech_recognition ends the
\* loop, at the latest when audio_queue.get(timeout=1.0) raises queue.Empty.
RecognitionExits ==
    /\ shutdown_event
    /\ recognition_thread = "running"
    /\ recognition_thread' = "exited"
    /\ UNCHANGED <<shutdown_event, audio_thread, stop_pc, stop_copy, closed>>
    /\ UNCHANGED <<tts_vars, audio_vars, net_vars, split_vars>>

\* ------------------------------------------------------- specification
Next ==
    \/ \E c \in Conns, mid \in MessageIds, st \in BOOLEAN, t \in TextIds :
          SynthesizeSpeech(c, mid, st, t, MaxReq)
    \/ \E c \in Conns : StopTts(c)
    \/ \E c \in Conns : StopTtsSent(c)
    \/ \E c \in Conns : ErrorSent(c)
    \/ StartTask
    \/ \E h \in handlers, o \in Outcomes : SingleSynthDone(h, o)
    \/ \E h \in handlers : TerminalSent(h)
    \/ \E h \in handlers : StreamStartSent(h)
    \/ \E h \in handlers, o \in Outcomes : ChunkSynthDone(h, o)
    \/ \E h \in handlers : ChunkSent(h)
    \/ \E h \in handlers : SleepDone(h)

Spec == Init /\ [][Next]_vars

\* The same service under a burst of commands of one connection: single-shot
\* requests without messageId, enough of them to fill the queue.
NextFull ==
    \/ SynthesizeSpeech(1, None, FALSE, 1, MaxReqFull)
    \/ ErrorSent(1)
    \/ StartTask
    \/ \E h \in handlers : SingleSynthDone(h, "ok")
    \/ \E h \in handlers : TerminalSent(h)

SpecFull == Init /\ [][NextFull]_vars

\* The service when no client ever sends stop_tts, under fair scheduling: the
\* event loop runs every task that is ready, the executor finishes every
\* synthesis and every send completes.  Clients are not obliged to send.
NextLive ==
    \/ \E c \in Conns, mid \in MessageIds, st \in BOOLEAN, t \in TextIds :
          SynthesizeSpeech(c, mid, st, t, MaxReq)
    \/ \E c \in Conns : ErrorSent(c)
    \/ StartTask
    \/ \E h \in handlers, o \in Outcomes : SingleSynthDone(h, o)
    \/ \E h \in handlers : TerminalSent(h)
    \/ \E h \in handlers : StreamStartSent(h)
    \/ \E h \in handlers, o \in Outcomes : ChunkSynthDone(h, o)
    \/ \E h \in handlers : ChunkSent(h)
    \/ \E h \in handlers : SleepDone(h)

Fairness ==
    /\ WF_vars(\E c \in Conns : ErrorSent(c))
    /\ WF_vars(StartTask)
    /\ WF_vars(\E h \in handlers, o \in Outcomes : SingleSynthDone(h, o))
    /\ WF_vars(\E h \in handlers : TerminalSent(h))
    /\ WF_vars(\E h \in handlers : StreamStartSent(h))
    /\ WF_vars(\E h \in handlers, o \in Outcomes : ChunkSynthDone(h, o))
    /\ WF_vars(\E h \in handlers : ChunkSent(h))
    /\ WF_vars(\E h \in handlers : SleepDone(h))

SpecLive == Init /\ [][NextLive]_vars /\ Fairness

\* The capture thread and the recognition thread on silent or untranscribable
\* audio (nothing to broadcast), with short bursts of speech.
NextAudio ==
    \/ SpeechFrame(MaxBuffered)
    \/ SilenceFrame(AudioQueueMaxsize)
    \/ VadRaises
    \/ \E text \in {"empty", "error"} : Recognize(text)

SpecAudio == Init /\ [][NextAudio]_vars

\* The same with long bursts of speech, the recognition thread keeping up
\* with the capture thread.
NextAudioLong ==
    \/ SpeechFrame(MaxBufferedLong)
    \/ SilenceFrame(0)
    \/ \E text \in {"empty", "error"} : Recognize(text)

SpecAudioLong == Init /\ [][NextAudioLong]_vars

\* The connections and the commands that do not touch the synthesis queue.
NextNet ==
    \/ \E c \in Conns, m \in Messages : HandleMessage(c, m)
    \/ \E c \in Conns : ReplySent(c)
    \/ \E c \in Conns : PeerCloses(c)
    \/ \E c \in Conns : HandlerEnds(c)
    \/ \E c \in Conns : Connect(c)

SpecNet == Init /\ [][NextNet]_vars

\* The broadcast of recognized speech to clients that may go away.  Two
\* utterances, of 10 and of 11 frames, wait for the recognition thread.
QueuedUtterances == <<MinSpeechChunks, MinSpeechChunks + 1>>

InitCast == Started /\ audio_queue = QueuedUtterances

NextCast ==
    \/ \E text \in {"text", "empty"} : Recognize(text)
    \/ BroadcastStart
    \/ SweepSendDone
    \/ \E c \in Conns : PeerCloses(c)
    \/ \E c \in Conns : HandlerEnds(c)

SpecCast == InitCast /\ [][NextCast]_vars

\* The texts of at most MaxTextLen characters made of sentence-terminal
\* punctuation, spaces and newlines only.
PunctuationTexts ==
    UNION {[1..n -> SentenceEnd \cup {" ", "\n"}] : n \in 0..MaxTextLen}

\* The splitter on each of these texts.
NextSplit == \E text \in PunctuationTexts : SplitText(text)

SpecSplit == Init /\ [][NextSplit]_vars

\* The capture and recognition threads while nothing drains broadcast_queue
\* (the event loop is busy or blocked): utterances of min_speech_chunks
\* frames, transcriptions with text, without text and failing.
NextOverflow ==
    \/ SpeechFrame(MinSpeechChunks)
    \/ SilenceFrame(AudioQueueMaxsize)
    \/ \E text \in {"text", "empty", "error"} : Recognize(text)

SpecOverflow == Init /\ [][NextOverflow]_vars

\* The life of the connections under fair scheduling: clients connect, send
\* commands (stop_tts among them) while their socket is open, and go away.
\* The event loop runs every coroutine that is ready, and a send ends: the
\* socket takes the message or, the peer being gone, raises.
NextConn ==
    \/ \E c \in peer_open, m \in Messages : HandleMessage(c, m)
    \/ \E c \in peer_open : StopTts(c)
    \/ \E c \in Conns : StopTtsSent(c)
    \/ \E c \in Conns : ReplySent(c)
    \/ \E c \in Conns : PeerCloses(c)
    \/ \E c \in Conns : HandlerEnds(c)
    \/ \E c \in Conns : Connect(c)

FairnessConn ==
    \A c \in Conns :
        /\ WF_vars(StopTtsSent(c))
        /\ WF_vars(ReplySent(c))
        /\ WF_vars(HandlerEnds(c))

SpecConn == Init /\ [][NextConn]_vars /\ FairnessConn

\* The service with a synthesis request and clients that ask for the status
\* or send stop_tts while it is processed.
NextBusy ==
    \/ \E c \in Conns, st \in BOOLEAN, t \in TextIds :
          SynthesizeSpeech(c, None, st, t, MaxReqBusy)
    \/ \E c \in Conns : HandleMessage(c, "get_status")
    \/ \E c \in Conns : ReplySent(c)
    \/ \E c \in Conns : StopTts(c)
    \/ \E c \in Conns : StopTtsSent(c)
    \/ StartTask
    \/ \E h \in handlers, o \in Outcomes : SingleSynthDone(h, o)
    \/ \E h \in handlers : TerminalSent(h)
    \/ \E h \in handlers : StreamStartSent(h)
    \/ \E h \in handlers, o \in Outcomes : ChunkSynthDone(h, o)
    \/ \E h \in handlers : ChunkSent(h)
    \/ \E h \in handlers : SleepDone(h)

SpecBusy == Init /\ [][NextBusy]_vars

\* The shutdown of the running service under fair scheduling: utterances are
\* recognized and broadcast, clients send stop_tts or go away, and stop() is
\* called at any moment.  The threads run on their own; the event loop runs
\* every coroutine that is ready, and a send or a close ends.
NextStop ==
    \/ \E text \in {"text", "empty"} : Recognize(text)
    \/ BroadcastStart
    \/ SweepSendDone
    \/ \E c \in peer_open : StopTts(c)
    \/ \E c \in Conns : StopTtsSent(c)
    \/ \E c \in Conns : PeerCloses(c)
    \/ \E c \in Conns : HandlerEnds(c)
    \/ Stop
    \/ \E c \in Conns : StopCloseDone(c)
    \/ CaptureExits
    \/ RecognitionExits

FairnessStop ==
    /\ WF_vars(SweepSendDone)
    /\ WF_vars(CaptureExits)
    /\ WF_vars(RecognitionExits)
    /\ \A c \in Conns :
          /\ WF_vars(StopTtsSent(c))
          /\ WF_vars(HandlerEnds(c))
          /\ WF_vars(StopCloseDone(c))

SpecStop == InitCast /\ [][NextStop]_vars /\ FairnessStop

\* ------------------------------------------------------------- claims
Terminal ==
    {"speech_generated", "speech_error", "tts_stream_complete",
     "tts_stream_error"}

Commands(evs) == [k \in DOMAIN evs |-> evs[k].command]

CountOf(evs, cmds) == Cardinality({k \in DOMAIN evs : evs[k].command \in cmds})

\* The request was accepted while no stop_tts handler was running, its
\* handling is over and no stop_tts cancelled it.
EndedUncancelled(r) == fate[r] \in {"returned", "abandoned", "skipped"}

\* The connection's command handler starts on a stop_tts in this step.
HandlesStop(c) ==
    /\ conn_pc[c] = "recv"
    /\ conn_pc'[c] # "recv"
    /\ requests' = requests

\* C1: at most one request is in flight (dequeued by a driver loop, its
\* handler not yet returned) at any time, whatever the interleaving of
\* synthesize_speech, stop_tts and driver steps.
C1_SingleFlight == Cardinality(handlers) <= 1

\* C2: once a stop_tts has superseded a request in flight, no terminal event
\* (speech_generated, speech_error, tts_stream_complete, tts_stream_error) is
\* emitted for that request afterwards.
C2_SupersededIsSilent ==
    [][\A r \in DOMAIN fate :
          fate[r] = "superseded" =>
              CountOf(events'[r], Terminal) = CountOf(events[r], Terminal)]_vars

\* C3: a request enqueued after every earlier stop_tts handler has returned,
\* and not cancelled by a later one, is never dropped by the driver without
\* being processed.
C3_LaterRequestNotDropped == \A r \in DOMAIN fate : fate[r] # "skipped"

\* C4: when stop_tts is handled while a streaming request is in flight and
\* none of its chunks has been delivered, no tts_stream_chunk and no
\* tts_stream_complete is delivered for it after tts_stopped.
C4_NoChunkAfterStop ==
    [][\A r \in DOMAIN fate :
          (/\ requests[r].streaming
           /\ fate[r] = "superseded"
           /\ CountOf(events[r], {"tts_stream_chunk"}) = 0)
          => CountOf(events'[r], {"tts_stream_chunk", "tts_stream_complete"})
               = 0]_vars

\* C5: when stop_tts is handled while a request is in flight, every waiting
\* request is removed unprocessed (no synthesis, no event), and when the
\* handler returns the queue is empty, is_processing_tts is false,
\* current_tts_id is absent and the sender was sent exactly one tts_stopped.
C5_StopDrainsQueue ==
    /\ [](\A r \in DOMAIN fate :
             fate[r] = "drained" =>
                 /\ events[r] = <<>>
                 /\ synth_results[r] = <<>>
                 /\ \A k \in DOMAIN tts_queue : tts_queue[k] # r
                 /\ \A h \in handlers : h.req # r)
    /\ [][\A c \in Conns :
             (HandlesStop(c) /\ handlers # {}) =>
                 /\ ~loop_blocked'
                 /\ \A k \in DOMAIN tts_queue : fate'[tts_queue[k]] = "drained"]_vars
    /\ [][\A c \in Conns :
             (/\ tts_lock = c
              /\ tts_lock' = 0
              /\ replies[c][1].message = "TTS processing stopped")
             => /\ tts_queue' = <<>>
                /\ ~is_processing_tts'
                /\ current_tts_id' = None
                /\ Commands(replies[c]) = <<"tts_stopped">>]_vars

\* C6: stop_tts handled when no request is in flight returns normally and is
\* a no-op: queue, is_processing_tts and current_tts_id are unchanged and the
\* sender is sent tts_stopped (so a second stop_tts changes nothing either).
C6_IdleStopIsNoOp ==
    [][\A c \in Conns :
          (HandlesStop(c) /\ handlers = {}) =>
              /\ UNCHANGED <<tts_queue, is_processing_tts, current_tts_id>>
              /\ ~loop_blocked'
              /\ Commands(replies'[c]) = <<"tts_stopped">>]_vars

\* C7: requests are processed in FIFO order, one after the other: while the
\* handler of a request has not returned, no request enqueued after it has
\* been dequeued.
C7_FifoOneAfterTheOther ==
    \A h \in handlers : \A r \in DOMAIN fate :
        r > h.req =>
            fate[r] \in {"queued", "queued_in_stop", "drained", "rejected",
                         "no_model"}

\* C8: the queue never holds more than 10 requests; a synthesize_speech
\* arriving when 10 are waiting is rejected with exactly one speech_error,
\* leaves the queue unchanged, and is never processed or retried.
C8_QueueFullRejects ==
    /\ [](Len(tts_queue) <= 10)
    /\ [](\A r \in DOMAIN fate :
             fate[r] = "rejected" =>
                 /\ Commands(events[r]) = <<"speech_error">>
                 /\ synth_results[r] = <<>>
                 /\ \A k \in DOMAIN tts_queue : tts_queue[k] # r
                 /\ \A h \in handlers : h.req # r)
    /\ [][\A c \in Conns :
             (/\ Len(requests') = Len(requests) + 1
              /\ requests'[Len(requests')].websocket = c
              /\ tts_model
              /\ Len(tts_queue) = 10)
             => /\ tts_queue' = tts_queue
                /\ new_tasks' = new_tasks
                /\ fate'[Len(requests')] = "rejected"
                /\ Commands(replies'[c]) = <<"speech_error">>]_vars
    /\ [][\A r \in DOMAIN fate :
             fate[r] = "rejected" => fate'[r] = "rejected"]_vars

\* A request has been rejected by a queue holding 10 waiting requests.
C8_Witness ==
    /\ Len(tts_queue) = 10
    /\ \E r \in DOMAIN fate : fate[r] = "rejected"

\* C9: a non-streaming request that was accepted and not cancelled gets
\* exactly one terminal event: speech_generated if the synthesis succeeded,
\* speech_error if it failed.
C9_OneTerminalEvent ==
    \A r \in DOMAIN fate :
        (~requests[r].streaming /\ EndedUncancelled(r)) =>
            /\ Len(events[r]) = 1
            /\ events[r][1].to = requests[r].websocket
            /\ Len(synth_results[r]) = 1
            /\ events[r][1].command =
                 IF synth_results[r][1] = "ok" THEN "speech_generated"
                 ELSE "speech_error"

\* C10: a streaming request of n fragments, not cancelled, whose syntheses
\* all succeed gets tts_stream_start (total_sentences = n), then the chunks
\* 0..n-1 in order with is_final on n-1 only, then tts_stream_complete.
C10_StreamInOrder ==
    \A r \in DOMAIN fate :
        (/\ requests[r].streaming
         /\ EndedUncancelled(r)
         /\ \A k \in DOMAIN synth_results[r] : synth_results[r][k] = "ok")
        => LET n == requests[r].sentences
               ws == requests[r].websocket
           IN  events[r] =
                 <<Event(ws, "tts_stream_start", -1, n, FALSE)>>
                 \o [k \in 1..n |->
                       Event(ws, "tts_stream_chunk", k - 1, n, k = n)]
                 \o <<Event(ws, "tts_stream_complete", -1, n, FALSE)>>

\* The index of the first _generate_speech call of request r that failed
\* (returned None or raised), 0 when none failed.
FirstFailure(r) ==
    LET bad == {k \in DOMAIN synth_results[r] : synth_results[r][k] # "ok"}
    IN  IF bad = {} THEN 0 ELSE CHOOSE k \in bad : \A j \in bad : k <= j

\* C11: when the synthesis of a chunk of a streaming request (not cancelled by
\* a stop_tts) fails, tts_stream_error is emitted for the request, no later
\* chunk of it is synthesized or delivered and no tts_stream_complete follows.
C11_ChunkFailureEndsStream ==
    \A r \in DOMAIN fate :
        (/\ requests[r].streaming
         /\ fate[r] \in {"in_flight", "returned"}
         /\ FirstFailure(r) > 0)
        => /\ CountOf(events[r], {"tts_stream_error"}) = 1
           /\ CountOf(events[r], {"tts_stream_complete"}) = 0
           /\ Len(synth_results[r]) = FirstFailure(r)
           /\ CountOf(events[r], {"tts_stream_chunk"}) = FirstFailure(r) - 1

\* Request r has been handled to its end and its last event is a terminal
\* event of its kind.
ReachedTerminal(r) ==
    /\ r \in DOMAIN fate
    /\ fate[r] = "returned"
    /\ events[r] # <<>>
    /\ events[r][Len(events[r])].command \in
         (IF requests[r].streaming
          THEN {"tts_stream_complete", "tts_stream_error"}
          ELSE {"speech_generated", "speech_error"})

\* C12: under fair scheduling and with no stop_tts, every request accepted
\* into the queue is eventually dequeued and reaches a terminal event of its
\* kind, and the driver returns to idle once the queue is empty.
C12_AcceptedEventuallyEnds ==
    /\ \A r \in 1..MaxReq :
          (r \in DOMAIN fate /\ fate[r] = "queued") ~> ReachedTerminal(r)
    /\ is_processing_tts ~> (~is_processing_tts /\ current_tts_id = None)
    /\ []((tts_queue = <<>> /\ handlers = {})
            => (~is_processing_tts /\ current_tts_id = None))

\* Every accepted request has reached its terminal event and the driver is
\* idle again.
C12_Witness ==
    /\ Len(requests) = MaxReq
    /\ \A r \in DOMAIN fate : ReachedTerminal(r)
    /\ \E r \in DOMAIN fate : requests[r].streaming
    /\ ~is_processing_tts
    /\ current_tts_id = None

\* C13: the streaming request with text "One. Two. Three." (handled to its
\* end, every synthesis succeeding) yields tts_stream_start with
\* total_sentences = 3, then the chunks 0, 1, 2 with is_final on 2 only, then
\* tts_stream_complete.
C13_OneTwoThreeHasThreeFragments ==
    \A r \in DOMAIN fate :
        (/\ requests[r].streaming
         /\ Texts[requests[r].text] = OneTwoThree
         /\ fate[r] = "returned"
         /\ \A k \in DOMAIN synth_results[r] : synth_results[r][k] = "ok")
        => LET ws == requests[r].websocket
           IN  events[r] =
                 <<Event(ws, "tts_stream_start", -1, 3, FALSE)>>
                 \o [k \in 1..3 |->
                       Event(ws, "tts_stream_chunk", k - 1, 3, k = 3)]
                 \o <<Event(ws, "tts_stream_complete", -1, 3, FALSE)>>

\* C14: no utterance handed to the recognition queue is longer than
\* max_speech_chunks frames, even when speech frames keep arriving without a
\* silence frame.
C14_UtteranceAtMostMax ==
    \A k \in DOMAIN audio_queue : audio_queue[k] <= MaxSpeechChunks

\* C15: no utterance handed to the recognition queue is shorter than
\* min_speech_chunks frames.
C15_UtteranceAtLeastMin ==
    \A k \in DOMAIN audio_queue : audio_queue[k] >= MinSpeechChunks

\* An utterance of exactly min_speech_chunks frames was handed over after a
\* shorter burst had been held back.
C15_Witness ==
    /\ Len(audio_queue) = 2
    /\ audio_queue[2] = MinSpeechChunks
    /\ speech_buffer = MinSpeechChunks - 1
    /\ silence_counter >= SilenceThreshold

\* The handler of connection c takes message m from the socket in this step
\* (a step that changes nothing is not seen).
Takes(c, m) ==
    /\ conn_pc[c] = "recv"
    /\ last_message'[c] = m
    /\ \/ last_message[c] # m
       \/ conn_pc'[c] = "send"

\* C16: a well-formed message with an unknown command c makes the service
\* send the sender an error event with error "Unknown command: c", and the
\* connection stays open and registered.
C16_UnknownCommandAnswered ==
    [][\A c \in Conns :
          Takes(c, "foo") =>
              /\ replies'[c] = <<Reply("error", "Unknown command: foo")>>
              /\ conn_pc'[c] = "send"
              /\ c \in websocket_clients']_vars

\* C17: a message that is not JSON, or JSON that is not a mapping, makes the
\* service send the sender an error event; the handler does not crash and the
\* connection goes on reading.
C17_MalformedAnswered ==
    [][\A c \in Conns :
          (Takes(c, InvalidJson) \/ Takes(c, JsonArray)) =>
              /\ Commands(replies'[c]) = <<"error">>
              /\ conn_pc'[c] = "send"
              /\ c \in websocket_clients']_vars

\* C18: start_listening is answered with listening_started and
\* stop_listening with listening_stopped, and a get_status handled after one
\* of them reports listening = TRUE after the former, FALSE after the latter.
C18_ListeningFlagFollowsCommands ==
    [][\A c \in Conns :
          /\ Takes(c, "start_listening") =>
                 Commands(replies'[c]) = <<"listening_started">>
          /\ Takes(c, "stop_listening") =>
                 Commands(replies'[c]) = <<"listening_stopped">>
          /\ (Takes(c, "get_status") /\ last_listening # "none") =>
                 /\ Commands(replies'[c]) = <<"status">>
                 /\ replies'[c][1].message.listening =
                      (last_listening = "start_listening")]_vars

\* C19: when a delivery of _send_response to a connection fails, the
\* connection is removed from websocket_clients and the caller is told of the
\* failure (the call does not return what a successful call returns), with
\* no exception raised.
C19_FailedSendUnregisters ==
    [][\A c \in Conns :
          (/\ conn_pc[c] = "send"
           /\ conn_pc'[c] = "recv"
           /\ c \notin peer_open)
          => /\ c \notin websocket_clients'
             /\ send_result'[c] # "None"]_vars

\* The for loop of _broadcast_message ends in this step.
SweepEnds == sweep.pc = "send" /\ sweep'.pc = "idle"

Received(c) == {delivered[c][k] : k \in DOMAIN delivered[c]}

\* C20: in a broadcast, a failed delivery does not keep the message from the
\* other connections; when the sweep ends every connection whose delivery
\* failed is out of websocket_clients and every one whose delivery succeeded
\* (and which is still open) is in it; and websocket_clients does not change
\* while the sweep iterates.
C20_BroadcastSweep ==
    /\ [][SweepEnds =>
            /\ \A x \in sweep.snapshot \cap peer_open :
                  sweep.message \in Received(x)'
            /\ \A x \in sweep'.disconnected_clients :
                  x \notin websocket_clients'
            /\ \A x \in (sweep'.visited \ sweep'.disconnected_clients)
                          \cap peer_open :
                  x \in websocket_clients']_vars
    /\ [][(sweep.pc = "send" /\ ~SweepEnds) =>
            websocket_clients' = websocket_clients]_vars

\* The place of utterance u in the order in which segmentation queued the
\* utterances.
QueuedAt(u) == CHOOSE k \in DOMAIN QueuedUtterances : QueuedUtterances[k] = u

\* C21: the speech_recognized events a client is delivered come in the order
\* in which segmentation queued their utterances.
C21_RecognizedInUtteranceOrder ==
    \A c \in Conns : \A i, j \in DOMAIN delivered[c] :
        i < j => QueuedAt(delivered[c][i]) < QueuedAt(delivered[c][j])

\* A client has been delivered the events of both utterances.
C21_Witness == \E c \in Conns : delivered[c] = QueuedUtterances

\* C22: a client that connects and sends get_status as its first command
\* reads a status event as the first message of the connection: the first
\* message the service sends on a new socket, no command other than
\* get_status having been taken from it, is a status event.
C22_StatusIsFirstMessage ==
    [][\A c \in Conns :
          (/\ conn_pc[c] = "send"
           /\ conn_pc'[c] = "recv"
           /\ send_result[c] = "unset"
           /\ last_message[c] \in {"none", "get_status"}
           /\ c \in peer_open)
          => Commands(replies[c]) = <<"status">>]_vars

\* C23: splitting a text that consists only of sentence-terminal punctuation
\* (. ! ?) and whitespace yields an empty sequence of fragments.
C23_PunctuationOnlyIsEmpty ==
    (\A k \in DOMAIN split_text : split_text[k] \in SentenceEnd \cup Whitespace)
        => split_result = <<>>

\* _broadcast_handler takes a message for _broadcast_message in this step.
BroadcastBegins ==
    /\ sweep.pc = "idle"
    /\ broadcast_queue # <<>>
    /\ broadcast_queue' = Tail(broadcast_queue)

\* C24: a broadcast made when websocket_clients is empty is a no-op: no
\* delivery is attempted, no error is raised and the set is unchanged.
C24_BroadcastToNobody ==
    [][(BroadcastBegins /\ websocket_clients = {}) =>
           /\ sweep'.pc = "idle"
           /\ sweep'.visited = {}
           /\ sweep'.outcome = "no_clients"
           /\ delivered' = delivered
           /\ websocket_clients' = {}]_vars

\* A message has been broadcast to an empty registry.
C24_Witness ==
    /\ sweep.outcome = "no_clients"
    /\ sweep.message = MinSpeechChunks
    /\ websocket_clients = {}

\* Some coroutine of the event loop is suspended in a websocket send.
InSend ==
    \/ \E c \in Conns : conn_pc[c] = "send"
    \/ \E h \in handlers :
          h.pc \in {"send_generated", "send_error", "send_start", "send_chunk",
                    "send_complete", "send_stream_error"}

\* Some handler waits for _generate_speech in the executor.
InSynthesis == \E h \in handlers : h.pc \in {"synth", "synth_chunk"}

\* C25: tts_lock is never held across a network send or an inference call:
\* whenever a coroutine is suspended in a websocket send or waits for a
\* synthesis call, tts_lock is free.
C25_LockFreeAcrossAwait == (InSend \/ InSynthesis) => tts_lock = 0

\* C26: the event loop never deadlocks on tts_lock: no coroutine blocks the
\* loop's thread acquiring tts_lock while its holder is a coroutine of the
\* same loop suspended in a send.
C26_NoLoopDeadlock ==
    ~(/\ loop_blocked
      /\ \E c \in Conns : tts_lock = c /\ conn_pc[c] = "send")

\* Request r is a streaming request without messageId that a stop_tts has
\* cancelled, and another request without messageId is in flight.
IdlessSuperseded(r) ==
    /\ requests[r].streaming
    /\ requests[r].message_id = None
    /\ fate[r] = "superseded"
    /\ \E r2 \in DOMAIN fate \ {r} :
          /\ requests[r2].message_id = None
          /\ fate[r2] = "in_flight"

\* C27: supersession works without request ids: when a streaming request
\* without messageId has been cancelled by stop_tts and another request
\* without messageId is in flight, the cancelled handler's next re-check ends
\* it: it does not go on to synthesize and emit another tts_stream_chunk.
C27_SupersededWithoutId ==
    [][\A r \in DOMAIN fate :
          IdlessSuperseded(r) =>
              \A h \in handlers' \ handlers :
                  h.req = r => h.pc # "synth_chunk"]_vars

\* C28: the status flags agree with the driver: whenever a request has been
\* dequeued, its handler has not returned and it has not been cancelled,
\* is_processing_tts is true and current_tts_id is that request's id (in the
\* states in which the event loop runs and can answer get_status).
C28_FlagsAgreeWithDriver ==
    \A h \in handlers :
        (~loop_blocked /\ fate[h.req] = "in_flight") =>
            /\ is_processing_tts
            /\ current_tts_id = requests[h.req].message_id

\* C29: a broadcast delivers to a snapshot of websocket_clients taken when it
\* starts: a connection registering or unregistering while the sweep is
\* suspended in a send neither aborts the sweep nor keeps the message from
\* the connections of the snapshot that are still open.
C29_BroadcastToSnapshot ==
    [][SweepEnds =>
          /\ sweep'.outcome = "completed"
          /\ sweep'.visited = sweep.snapshot
          /\ \A x \in sweep.snapshot \cap peer_open :
                sweep.message \in Received(x)']_vars

\* C30: a connection is in websocket_clients only from its registration on
\* connect until its handler ends: once its peer has closed it, it is
\* eventually removed from the set; a connection whose handler has ended is
\* not in the set, and the set gains a member only by the registration of a
\* new connection.
C30_ClosedIsRemoved ==
    /\ \A c \in Conns : (c \notin peer_open) ~> (c \notin websocket_clients)
    /\ [](\A c \in Conns : conn_pc[c] = "closed" => c \notin websocket_clients)
    /\ [][\A c \in Conns :
             (c \notin websocket_clients /\ c \in websocket_clients') =>
                 (conn_pc[c] = "closed" /\ conn_pc'[c] # "closed")]_vars

\* C31: while a synthesis call of a request in flight is running, a command
\* of any connection is received, handled and answered without waiting for
\* the synthesis: a connection that reads its socket can have get_status
\* handled, a reply being sent can be completed, and no command handler is
\* stuck before its reply.
C31_CommandsServedDuringSynthesis ==
    InSynthesis =>
        \A c \in Conns :
            /\ conn_pc[c] = "recv" => ENABLED HandleMessage(c, "get_status")
            /\ conn_pc[c] = "send" => ENABLED (ReplySent(c) \/ StopTtsSent(c))
            /\ conn_pc[c] # "acquire_lock"

\* C32: every event produced for a synthesis request (speech_generated,
\* speech_error, tts_stream_start, tts_stream_chunk, tts_stream_complete,
\* tts_stream_error) is sent to the connection that issued the request and to
\* no other, and none is put on the broadcast queue, whichever connection's
\* command started the driver that processes it.
C32_EventsToOriginator ==
    /\ \A r \in DOMAIN events : \A k \in DOMAIN events[r] :
          events[r][k].to = requests[r].websocket
    /\ broadcast_queue = <<>>

\* Requests of two connections have been processed to their terminal events,
\* the second one dequeued by the driver that the first one's command started.
C32_Witness ==
    /\ Len(requests) = 2
    /\ requests[1].websocket # requests[2].websocket
    /\ new_tasks = 1
    /\ \A r \in 1..2 :
          /\ fate[r] = "returned"
          /\ events[r] # <<>>
          /\ events[r][Len(events[r])].command \in Terminal

\* The flush condition of _process_speech_buffer on n buffered frames after
\* `silence` consecutive silence frames.
FlushDue(n, silence) ==
    /\ LongEnough(n)
    /\ \/ silence >= SilenceThreshold
       \/ n >= MaxSpeechChunks

\* audio_capture logs a failure of the classifier in this step.
ClassifierFailed ==
    /\ capture_log # "Error in audio capture"
    /\ capture_log' = "Error in audio capture"

\* C33: when the speech/silence classifier fails on a frame, the failure is
\* not raised and the frame is treated as silence: silence_counter is
\* incremented and the flush condition is evaluated for the frame.
C33_ClassifierFailureIsSilence ==
    [][ClassifierFailed =>
          /\ silence_counter' = silence_counter + 1
          /\ FlushDue(speech_buffer, silence_counter') => speech_buffer' = 0]_vars

\* audio_capture handles a silence frame in this step.
SilenceStep == silence_counter' = silence_counter + 1

\* audio_capture handles a speech frame in this step.
SpeechStep == speech_buffer' = speech_buffer + 1

\* C34: immediately after a flush the speech buffer is empty and
\* silence_counter is zero; on a frame on which the flush condition does not
\* hold nothing is handed to the recognition queue and the frames already
\* buffered stay.
C34_FlushClearsBufferAndCounter ==
    [][/\ (SilenceStep /\ FlushDue(speech_buffer, silence_counter')) =>
              (speech_buffer' = 0 /\ silence_counter' = 0)
       /\ (SilenceStep /\ ~FlushDue(speech_buffer, silence_counter')) =>
              (speech_buffer' = speech_buffer /\ audio_queue' = audio_queue)
       /\ SpeechStep => audio_queue' = audio_queue]_vars

\* C35: every utterance handed to the recognition queue is one contiguous span
\* of speech: no two consecutive frames of it were separated in the input by
\* silence_threshold or more silence frames (a burst shorter than
\* min_speech_chunks that is followed by a long silence is not carried over
\* into a later utterance).
C35_UtteranceIsContiguous == ~gap_in_utterance

\* C36: the recognition queue never holds more than 3 utterances although its
\* capacity is 5: a flush made while 3 are queued discards the utterance,
\* leaves the queue as it is and clears the buffer all the same; and the
\* capture thread never waits for the queue: it handles its next frame
\* whatever the queue holds.
C36_AudioQueueGate ==
    /\ [](Len(audio_queue) <= AudioQueueGate)
    /\ [][(/\ SilenceStep
           /\ FlushDue(speech_buffer, silence_counter')
           /\ Len(audio_queue) = AudioQueueGate) =>
              /\ audio_queue' = audio_queue
              /\ speech_buffer' = 0]_vars
    /\ [](silence_counter < MaxSilence => ENABLED SilenceFrame(AudioQueueMaxsize))
    /\ [](speech_buffer < MaxBuffered => ENABLED SpeechFrame(MaxBuffered))

\* An utterance has just been discarded with 3 utterances queued.
C36_Witness ==
    /\ last_flush = "dropped"
    /\ Len(audio_queue) = AudioQueueGate
    /\ speech_buffer = 0

\* C37: an item discarded because a bounded queue is at its limit is logged
\* (or counted) at the moment it is dropped; in particular a flushed utterance
\* discarded because the recognition queue is at its limit makes
\* audio_capture log a record.
C37_DropIsLogged ==
    last_flush = "dropped" =>
        capture_log = "Audio queue full, dropping speech data"

\* speech_recognition takes an utterance from audio_queue in this step.
RecognizeStep == audio_queue # <<>> /\ audio_queue' = Tail(audio_queue)

\* The recognition thread runs until shutdown and takes the next utterance
\* whenever there is one.
WorkerKeepsRunning ==
    ~shutdown_event =>
        /\ recognition_thread = "running"
        /\ audio_queue # <<>> =>
               ENABLED (\E text \in {"text", "empty", "error"} : Recognize(text))

\* C38: for each utterance taken from audio_queue the recognition thread
\* enqueues exactly one speech_recognized event if the transcription succeeds
\* with non-empty trimmed text, and none if the text is empty or the
\* transcription fails; in every case the loop keeps running and processes
\* the next utterance.
C38_OneEventPerUtterance ==
    /\ [][RecognizeStep =>
            broadcast_queue' =
                IF transcription' = "text"
                THEN Append(broadcast_queue, Head(audio_queue))
                ELSE broadcast_queue]_vars
    /\ []WorkerKeepsRunning

\* C38 as the code has it: the one event is enqueued unless broadcast_queue is
\* full (20 events), in which case none is.
C38_OneEventUnlessFull ==
    /\ [][RecognizeStep =>
            broadcast_queue' =
                IF /\ transcription' = "text"
                   /\ Len(broadcast_queue) < BroadcastQueueMaxsize
                THEN Append(broadcast_queue, Head(audio_queue))
                ELSE broadcast_queue]_vars
    /\ []WorkerKeepsRunning

\* A transcription has just failed after an event was enqueued for an earlier
\* utterance, and the next utterance waits for the running thread.
C38_Witness ==
    /\ transcription = "error"
    /\ recognition_log = "Error in speech recognition"
    /\ Len(broadcast_queue) = 1
    /\ audio_queue # <<>>
    /\ recognition_thread = "running"

\* C39: the recognition thread never waits for broadcast_queue: with the queue
\* full (20 events) a new speech_recognized event is dropped, the queue keeps
\* its contents and the thread goes on to the next utterance.
C39_FullBroadcastQueueDrops ==
    /\ [](Len(broadcast_queue) <= BroadcastQueueMaxsize)
    /\ [][(RecognizeStep /\ Len(broadcast_queue) = BroadcastQueueMaxsize) =>
            broadcast_queue' = broadcast_queue]_vars
    /\ []((audio_queue # <<>> /\ ~shutdown_event) => ENABLED Recognize("text"))

\* An event has just been dropped at a full queue and the next utterance
\* waits.
C39_Witness ==
    /\ Len(broadcast_queue) = BroadcastQueueMaxsize
    /\ recognition_log =
           "Broadcast queue full, dropping speech recognition result"
    /\ audio_queue # <<>>

\* The capture loop and the recognition loop have exited, the broadcast drain
\* has stopped, stop() has run to its end and every connection registered
\* when it began is closed.
ShutdownComplete ==
    /\ audio_thread = "exited"
    /\ recognition_thread = "exited"
    /\ ~running
    /\ sweep.pc = "idle"
    /\ stop_pc = "done"
    /\ stop_copy \subseteq closed
    /\ stop_copy \cap peer_open = {}

\* C40: after stop() is called, shutdown completes: the capture loop and the
\* recognition loop see the shutdown signal and exit, the broadcast drain
\* stops, and every connection that was registered when stop() began is
\* closed.
C40_ShutdownCompletes == (stop_pc # "idle") ~> ShutdownComplete

====
